---- MODULE Spec2Model ----
(***************************************************************************)
(* spritemap-explode: a command line tool that cuts a sprite map into one  *)
(* PNG file per non-empty frame (src/spritemap_explode.go).                *)
(*                                                                         *)
(* Spec        the whole program: main, args.parse, explode, saveImage     *)
(* MirrorSpec  the pure function imageMirrorY on frames with pixel colours *)
(* NameSpec    the output file names of a run (FrameFilenameFormat and     *)
(*             fmt.Sprintf) on grids large enough to need zero padding     *)
(***************************************************************************)
EXTENDS Integers, Sequences, FiniteSets, TLC

VARIABLES
    source,    \* environment: the source file (missing, undecodable, or an image)
    budget,    \* environment: how many output files the disk may fail to take
    pc,        \* position of main: start, open, decode, assert, explode, done, exited
    a,         \* the args struct (lines 45-54), plus flag.NArg()
    img,       \* the decoded source image
    opened,    \* whether os.Open succeeded on the source file
    grid,      \* the locals frameWidth, frameHeight, columns, rows of explode
    row,       \* loop variable of explode (line 157)
    column,    \* loop variable of explode (line 159)
    files,     \* the output files that exist, by path
    log,       \* one record per inner-loop iteration of explode
    errs,      \* number of create/encode failures the environment has injected
    exitCode,  \* the process exit status, NoExit while running
    stderr,    \* what was printed to os.Stderr, as a sequence of message tags
    mIn,       \* MirrorSpec: the frame given to imageMirrorY
    mOut,      \* MirrorSpec: imageMirrorY(mIn), NoImage before the call
    mTwice,    \* MirrorSpec: imageMirrorY(imageMirrorY(mIn)), NoImage before
    nRun,      \* NameSpec: the run's prefix, mirror flag and grid size
    nRow,      \* NameSpec: loop variable row
    nColumn,   \* NameSpec: loop variable column
    names      \* NameSpec: the (row, column, side, path) produced so far

mainVars   == <<source, budget, pc, a, img, opened, grid, row, column, files, log, errs, exitCode, stderr>>
mirrorVars == <<mIn, mOut, mTwice>>
nameVars   == <<nRun, nRow, nColumn, names>>
vars       == <<mainVars, mirrorVars, nameVars>>

(***************************************************************************)
(* Bounds of the model.                                                    *)
(***************************************************************************)
\* largest source image width
MaxW == 3
\* largest source image height
MaxH == 2
\* largest value of the flags -width, -height, -columns and -rows
MaxFlag == 2
\* largest source image width and height when the output disk may fail
MaxIoW == 2
MaxIoH == 1
\* largest width, height and top-left offset of a frame given to imageMirrorY
MaxMirrorW == 2
MaxMirrorH == 1
MaxMirrorMin == 1
\* largest number of rows and of columns of a run whose file names are built
MaxNameGrid == 11
\* largest number of source pixels with non-zero alpha
MaxOpaque == 1
\* largest number of create/encode failures in one run
MaxErrors == 1

NoExit  == 0 - 1
NoImage == [kind |-> "none"]
NoGrid  == [frameWidth |-> 0, frameHeight |-> 0, columns |-> 0, rows |-> 0]
NoArgs  == [NArg |-> 0, Filename |-> <<>>, Prefix |-> <<>>, FrameWidth |-> 0,
            FrameHeight |-> 0, Columns |-> 0, Rows |-> 0, MirrorLeft |-> FALSE]

Min2(i, j) == IF i < j THEN i ELSE j
Max2(i, j) == IF i > j THEN i ELSE j

(***************************************************************************)
(* image.Rectangle, as used by explode and the standard image types.       *)
(***************************************************************************)
\* image.Rect(x0, y0, x1, y1): a well-formed rectangle (line 161)
Rect(x0, y0, x1, y1) ==
    [Min |-> <<Min2(x0, x1), Min2(y0, y1)>>, Max |-> <<Max2(x0, x1), Max2(y0, y1)>>]

ZR == Rect(0, 0, 0, 0)

RectEmpty(r) == r.Min[1] >= r.Max[1] \/ r.Min[2] >= r.Max[2]

\* Rectangle.Intersect, which SubImage applies to the requested rectangle
Intersect(r, s) ==
    LET t == [Min |-> <<Max2(r.Min[1], s.Min[1]), Max2(r.Min[2], s.Min[2])>>,
              Max |-> <<Min2(r.Max[1], s.Max[1]), Min2(r.Max[2], s.Max[2])>>]
    IN  IF RectEmpty(t) THEN ZR ELSE t

\* Point.In
In(p, r) == r.Min[1] <= p[1] /\ p[1] < r.Max[1] /\ r.Min[2] <= p[2] /\ p[2] < r.Max[2]

\* the pixels of a rectangle
RectPoints(r) == {p \in (r.Min[1] .. r.Max[1] - 1) \X (r.Min[2] .. r.Max[2] - 1) : TRUE}

\* img.Bounds() of a decoded image: it starts at the origin
Bounds(im) == Rect(0, 0, im.W, im.H)

\* img.SubImage(r): a view of im's pixels bounded to r clamped to im's bounds;
\* the view is given by its bounds, the pixels stay those of im (line 161)
SubImage(im, r) == Intersect(r, Bounds(im))

(***************************************************************************)
(* The decoded source images.  A pixel is either transparent (alpha 0) or  *)
(* not (alpha 1 stands for every non-zero alpha).  outside is the alpha of *)
(* the colour At returns for a point outside the image's rectangle: the    *)
(* zero colour for the RGBA family, Palette[0] for a paletted image (GIF,  *)
(* paletted PNG).  sub tells whether the value implements SubImage: every  *)
(* type the registered decoders (png, jpeg, gif; lines 9-11) return does.  *)
(***************************************************************************)
SourceImages(maxW, maxH) ==
    UNION { { [kind |-> "image", W |-> wh[1], H |-> wh[2], opaque |-> o, outside |-> k,
               sub |-> TRUE] :
                o \in {s \in SUBSET ((0 .. wh[1] - 1) \X (0 .. wh[2] - 1)) :
                          Cardinality(s) <= MaxOpaque},
                k \in {0, 1} } :
            wh \in (1 .. maxW) \X (1 .. maxH) }

\* a source file that does not exist, and one that no decoder accepts
MissingFile == [kind |-> "missing"]
GarbageFile == [kind |-> "garbage"]

\* the source files of the environment
SourceFiles(maxW, maxH) ==
    {MissingFile, GarbageFile} \cup SourceImages(maxW, maxH)

\* the alpha of view.At(p).RGBA() for the view of im with bounds r (line 25)
AlphaAt(im, r, p) ==
    IF In(p, r) THEN (IF p \in im.opaque THEN 1 ELSE 0) ELSE im.outside

(***************************************************************************)
(* imageEmpty (lines 22-31).                                               *)
(***************************************************************************)
\* the coordinates the two loops range over (lines 23-24)
ScanRange(r) == (0 .. r.Max[1] - 1) \X (0 .. r.Max[2] - 1)

\* p is visited before q: x is the outer loop, y the inner one
ScanBefore(p, q) == p[1] < q[1] \/ (p[1] = q[1] /\ p[2] < q[2])

\* the scanned coordinates with non-zero alpha (line 25)
ScanHits(im, r) == {p \in ScanRange(r) : AlphaAt(im, r, p) # 0}

imageEmpty(im, r) == ScanHits(im, r) = {}

\* the coordinates visited until imageEmpty returns (it returns at the first hit)
ScanVisited(im, r) ==
    IF ScanHits(im, r) = {} THEN ScanRange(r)
    ELSE LET h == CHOOSE h \in ScanHits(im, r) :
                      \A q \in ScanHits(im, r) : q = h \/ ScanBefore(h, q)
         IN  {p \in ScanRange(r) : p = h \/ ScanBefore(p, h)}

(***************************************************************************)
(* The grid (lines 56-82).  Go's / on non-negative ints is \div.           *)
(***************************************************************************)
ImageColumnsCeil(ar, im) ==
    IF ar.Columns # 0 THEN ar.Columns ELSE (im.W + ar.FrameWidth - 1) \div ar.FrameWidth
ImageColumns(ar, im) ==
    IF ar.Columns # 0 THEN ar.Columns ELSE Bounds(im).Max[1] \div ar.FrameWidth

ImageRows(ar, im) ==
    IF ar.Rows # 0 THEN ar.Rows ELSE Bounds(im).Max[2] \div ar.FrameHeight

ImageFrameWidth(ar, im) ==
    IF ar.FrameWidth # 0 THEN ar.FrameWidth ELSE Bounds(im).Max[1] \div ar.Columns

ImageFrameHeight(ar, im) ==
    IF ar.FrameHeight # 0 THEN ar.FrameHeight ELSE Bounds(im).Max[2] \div ar.Rows

\* the locals of explode (lines 151-154)
Grid(ar, im) ==
    [frameWidth |-> ImageFrameWidth(ar, im), frameHeight |-> ImageFrameHeight(ar, im),
     columns |-> ImageColumns(ar, im), rows |-> ImageRows(ar, im)]

\* the rectangle requested for (r, c) (lines 158-161)
FrameRectTransposed(g, r, c) ==
    Rect(r * g.frameWidth, c * g.frameHeight,
         r * g.frameWidth + g.frameWidth, c * g.frameHeight + g.frameHeight)
FrameRect(g, r, c) ==
    Rect(c * g.frameWidth, r * g.frameHeight,
         c * g.frameWidth + g.frameWidth, r * g.frameHeight + g.frameHeight)

(***************************************************************************)
(* File names (lines 84-94, 167-174).  A string is a sequence of           *)
(* one-character strings.                                                  *)
(***************************************************************************)
DigitChars == <<"0", "1", "2", "3", "4", "5", "6", "7", "8", "9">>

\* strconv.Itoa, and %d, of a non-negative int
RECURSIVE Itoa(_)
Itoa(n) == IF n < 10 THEN <<DigitChars[n + 1]>>
           ELSE Itoa(n \div 10) \o <<DigitChars[(n % 10) + 1]>>

\* int(math.Ceil(math.Log10(float64(n)))) for n >= 1 (lines 85-86); the float
\* result is exact at the powers of ten, so this is the least d with 10^d >= n
RECURSIVE CeilLog10(_)
CeilLog10(n) == IF n <= 1 THEN 0 ELSE 1 + CeilLog10((n + 9) \div 10)

\* the verb %0<w>d: zero padding to a minimum width, never truncating
RECURSIVE PadZero(_, _)
PadZero(s, w) == IF Len(s) >= w THEN s ELSE PadZero(<<"0">> \o s, w)

\* the format string, by its fields (lines 84-94)
FrameFilenameFormat(ar, columns, rows) ==
    [xDigits |-> CeilLog10(columns), yDigits |-> CeilLog10(rows), mirror |-> ar.MirrorLeft]

\* fmt.Sprintf(format, prefix, [side,] row, column) (lines 167, 169, 174)
SprintfNoSide(format, prefix, side, r, c) ==
    prefix \o <<"-">> \o PadZero(Itoa(r), format.yDigits)
           \o <<"-">> \o PadZero(Itoa(c), format.xDigits) \o <<".", "p", "n", "g">>
Sprintf(format, prefix, side, r, c) ==
    prefix \o (IF format.mirror THEN <<"-", side>> ELSE <<>>)
           \o <<"-">> \o PadZero(Itoa(r), format.yDigits)
           \o <<"-">> \o PadZero(Itoa(c), format.xDigits) \o <<".", "p", "n", "g">>

\* path.Ext: the suffix from the last dot of the last path element, or empty
RECURSIVE Ext(_)
Ext(name) ==
    IF name = <<>> \/ name[Len(name)] = "/" THEN <<>>
    ELSE IF name[Len(name)] = "." THEN <<".">>
    ELSE LET e == Ext(SubSeq(name, 1, Len(name) - 1))
         IN  IF e = <<>> THEN <<>> ELSE e \o <<name[Len(name)]>>

\* strings.TrimSuffix(a.Filename, a.Suffix) (lines 119-120)
Prefix(name) == SubSeq(name, 1, Len(name) - Len(Ext(name)))

(***************************************************************************)
(* saveImage (lines 136-148).  outcome is what the environment does:       *)
(* "ok", "createFail" (os.Create fails) or "encodeFail" (png.Encode fails  *)
(* after os.Create made the file).                                         *)
(***************************************************************************)
Outcomes == {"ok", "createFail", "encodeFail"}

saveImageKeepsPartial(fs, filename, outcome) ==
    IF outcome = "createFail" THEN fs ELSE fs \cup {filename}
saveImage(fs, filename, outcome) ==
    IF outcome = "createFail" THEN fs
    ELSE IF outcome = "encodeFail" THEN (fs \cup {filename}) \ {filename}
    ELSE fs \cup {filename}

\* what saveImage prints (lines 139, 145)
saveImageMessage(outcome) ==
    IF outcome = "createFail" THEN <<"cannot create">>
    ELSE IF outcome = "encodeFail" THEN <<"cannot encode">>
    ELSE <<>>

Failures(outs) == Cardinality({i \in DOMAIN outs : outs[i] # "ok"})

(***************************************************************************)
(* The program: main (lines 181-207).                                      *)
(***************************************************************************)
\* the source file name given on the command line
Filenames == {<<"s", ".", "g", "i", "f">>}

\* the command lines: whether flag.Parse accepts the flags, the number of
\* positional arguments, and the values of the five flags (lines 97-112);
\* with one positional argument every flag value up to MaxFlag, with none or
\* two of them (rejected whatever the flags are) each flag zero or one
CommandLine(ok, n, f, fw, fh, c, r, m) ==
    [flagsOK |-> ok, NArg |-> n, Filename |-> f, FrameWidth |-> fw, FrameHeight |-> fh,
     Columns |-> c, Rows |-> r, MirrorLeft |-> m]

CommandLines ==
    { CommandLine(TRUE, 1, f, fw, fh, c, r, m) :
          f \in Filenames, fw \in 0 .. MaxFlag, fh \in 0 .. MaxFlag,
          c \in 0 .. MaxFlag, r \in 0 .. MaxFlag, m \in BOOLEAN }
    \cup
    { CommandLine(TRUE, n, f, fw, fh, c, r, m) :
          n \in {0, 2}, f \in Filenames, fw \in 0 .. 1, fh \in 0 .. 1,
          c \in 0 .. 1, r \in 0 .. 1, m \in BOOLEAN }
    \cup
    { CommandLine(FALSE, 0, f, 0, 0, 0, 0, FALSE) : f \in Filenames }

\* os.Exit(code) after printing msgs to os.Stderr
Exit(code, msgs) ==
    /\ pc' = "exited"
    /\ exitCode' = code
    /\ stderr' = stderr \o msgs

\* the fields args.parse has set when it returns (lines 97-120)
ParsedArgs(cl) ==
    [NArg |-> cl.NArg,
     Filename |-> IF cl.NArg = 1 THEN cl.Filename ELSE <<>>,
     Prefix |-> IF cl.NArg = 1 THEN Prefix(cl.Filename) ELSE <<>>,
     FrameWidth |-> cl.FrameWidth, FrameHeight |-> cl.FrameHeight,
     Columns |-> cl.Columns, Rows |-> cl.Rows, MirrorLeft |-> cl.MirrorLeft]

\* args.parse and the exit of main on its failure (lines 96-134, 182-185);
\* flag.Parse on the default flag set prints the error and the usage and
\* exits with status 2 itself when a flag is malformed (line 112)
Parse ==
    /\ pc = "start"
    /\ \E cl \in CommandLines :
          /\ a' = ParsedArgs(cl)
          /\ IF ~cl.flagsOK
                THEN Exit(2, <<"flag error", "usage">>)
             ELSE IF cl.NArg # 1
                THEN Exit(1, <<"usage">>)
             ELSE IF cl.FrameHeight = 0 /\ cl.Rows = 0
                THEN Exit(1, <<"need height or rows", "usage">>)
             ELSE IF cl.FrameWidth = 0 /\ cl.Columns = 0
                THEN Exit(1, <<"need width or columns">>)
             ELSE pc' = "open" /\ UNCHANGED <<exitCode, stderr>>
    /\ UNCHANGED <<img, opened, grid, row, column, files, log, errs>>
    /\ UNCHANGED <<source, budget, mirrorVars, nameVars>>

\* os.Open of the source file (lines 187-192)
Open ==
    /\ pc = "open"
    /\ IF source.kind # "missing"
          THEN opened' = TRUE /\ pc' = "decode" /\ UNCHANGED <<exitCode, stderr>>
          ELSE Exit(2, <<"cannot open">>) /\ UNCHANGED opened
    /\ UNCHANGED <<a, img, grid, row, column, files, log, errs>>
    /\ UNCHANGED <<source, budget, mirrorVars, nameVars>>

\* image.Decode (lines 194-198)
Decode ==
    /\ pc = "decode"
    /\ IF source.kind = "image"
          THEN img' = source /\ pc' = "assert" /\ UNCHANGED <<exitCode, stderr>>
          ELSE Exit(3, <<"cannot decode">>) /\ UNCHANGED img
    /\ UNCHANGED <<a, opened, grid, row, column, files, log, errs>>
    /\ UNCHANGED <<source, budget, mirrorVars, nameVars>>

\* the type assertion img.(SpriteMap) and the entry of explode (lines 200-206,
\* 151-155).  The one-result assertion panics when the value has no SubImage
\* method, and a Go program that panics exits with status 2; when it succeeds
\* spriteMap is not nil, so the branch of lines 201-204 is never taken.
AssertSpriteMap ==
    /\ pc = "assert"
    /\ IF img.sub
          THEN /\ pc' = "explode"
               /\ grid' = Grid(a, img)
               /\ row' = 0
               /\ column' = 0
               /\ UNCHANGED <<exitCode, stderr>>
          ELSE Exit(2, <<"panic">>) /\ UNCHANGED <<grid, row, column>>
    /\ UNCHANGED <<a, img, opened, files, log, errs>>
    /\ UNCHANGED <<source, budget, mirrorVars, nameVars>>

\* the sides written for a non-empty frame (lines 166-176)
Sides(ar) == IF ar.MirrorLeft THEN <<"r", "l">> ELSE <<"">>

\* the saveImage calls of one iteration, outs[i] the outcome of the i-th
Saves(ar, g, r, c, outs) ==
    [i \in DOMAIN Sides(ar) |->
        [side |-> Sides(ar)[i],
         path |-> Sprintf(FrameFilenameFormat(ar, g.columns, g.rows), ar.Prefix,
                          Sides(ar)[i], r, c),
         outcome |-> outs[i]]]

\* the files after the saveImage calls sv, in order
RECURSIVE SaveAll(_, _)
SaveAll(fs, sv) ==
    IF sv = <<>> THEN fs
    ELSE SaveAll(saveImage(fs, sv[1].path, sv[1].outcome), Tail(sv))

RECURSIVE SaveMessages(_)
SaveMessages(sv) ==
    IF sv = <<>> THEN <<>> ELSE saveImageMessage(sv[1].outcome) \o SaveMessages(Tail(sv))

\* one iteration of the inner loop of explode (lines 159-177), with the loop
\* headers that follow it: column++, and row++ after the last column of a row;
\* the locals are bound by \E over singleton sets, which evaluates each once
ExplodeCell ==
    /\ pc = "explode"
    /\ row < grid.rows
    /\ column < grid.columns
    /\ \E rect \in {FrameRect(grid, row, column)} :
       \E sub \in {SubImage(img, rect)} :
       \E empty \in {imageEmpty(img, sub)} :
          IF empty
             THEN /\ log' = Append(log, [row |-> row, column |-> column, rect |-> rect,
                                         bounds |-> sub, empty |-> empty, saves |-> <<>>])
                  /\ UNCHANGED <<files, errs, stderr>>
             ELSE \E outs \in [DOMAIN Sides(a) -> Outcomes] :
                     /\ errs + Failures(outs) <= budget
                     /\ \E sv \in {Saves(a, grid, row, column, outs)} :
                           /\ files' = SaveAll(files, sv)
                           /\ stderr' = stderr \o SaveMessages(sv)
                           /\ log' = Append(log, [row |-> row, column |-> column,
                                                  rect |-> rect, bounds |-> sub,
                                                  empty |-> empty, saves |-> sv])
                     /\ errs' = errs + Failures(outs)
    /\ IF column + 1 < grid.columns
          THEN column' = column + 1 /\ row' = row
          ELSE column' = 0 /\ row' = row + 1
    /\ UNCHANGED <<pc, a, img, opened, grid, exitCode>>
    /\ UNCHANGED <<source, budget, mirrorVars, nameVars>>

\* an iteration of the outer loop whose inner loop has no iteration, the grid
\* having no column (lines 157, 159)
ExplodeRowEnd ==
    /\ pc = "explode"
    /\ row < grid.rows
    /\ column >= grid.columns
    /\ row' = row + 1
    /\ column' = 0
    /\ UNCHANGED <<pc, a, img, opened, grid, files, log, errs, exitCode, stderr>>
    /\ UNCHANGED <<source, budget, mirrorVars, nameVars>>

\* the end of the outer loop: explode and main return (lines 157, 179, 207)
ExplodeReturn ==
    /\ pc = "explode"
    /\ row >= grid.rows
    /\ pc' = "done"
    /\ exitCode' = 0
    /\ UNCHANGED <<a, img, opened, grid, row, column, files, log, errs, stderr>>
    /\ UNCHANGED <<source, budget, mirrorVars, nameVars>>

\* the program starts in an environment: a source file and an output disk
MainInit(sources, failures) ==
    /\ source \in sources
    /\ budget = failures
    /\ pc = "start"
    /\ a = NoArgs
    /\ img = NoImage
    /\ opened = FALSE
    /\ grid = NoGrid
    /\ row = 0
    /\ column = 0
    /\ files = {}
    /\ log = <<>>
    /\ errs = 0
    /\ exitCode = NoExit
    /\ stderr = <<>>

MirrorIdle == mIn = NoImage /\ mOut = NoImage /\ mTwice = NoImage
NameIdle   == nRun = NoArgs /\ nRow = 0 /\ nColumn = 0 /\ names = {}

\* the whole program on a disk that takes every output file
Init == MainInit(SourceFiles(MaxW, MaxH), 0) /\ MirrorIdle /\ NameIdle

\* the whole program on a disk that may fail up to MaxErrors times
IoInit == MainInit(SourceFiles(MaxIoW, MaxIoH), MaxErrors) /\ MirrorIdle /\ NameIdle

Next ==
    \/ Parse
    \/ Open
    \/ Decode
    \/ AssertSpriteMap
    \/ ExplodeCell
    \/ ExplodeRowEnd
    \/ ExplodeReturn

Spec == Init /\ [][Next]_vars

IoSpec == IoInit /\ [][Next]_vars

(***************************************************************************)
(* Colours.  The code treats the channels R, G and B alike, so a colour is *)
(* modelled by R and A.  A colour value carries its Go type:               *)
(*   NRGBA    8 bit, not alpha-premultiplied  (PNG with 8-bit alpha)       *)
(*   RGBA     8 bit, alpha-premultiplied      (opaque PNG, GIF palettes)   *)
(*   NRGBA64  16 bit, not alpha-premultiplied (PNG with 16-bit alpha)      *)
(***************************************************************************)
Colour(m, r, al) == [model |-> m, R |-> r, A |-> al]

\* the pixel values a decoder produces, a few of each type; the decoders
\* produce RGBA pixels that are opaque or fully transparent only
Colours(kind) ==
    IF kind = "NRGBA"
       THEN {Colour("NRGBA", 0, 0), Colour("NRGBA", 255, 128), Colour("NRGBA", 18, 255)}
    ELSE IF kind = "RGBA"
       THEN {Colour("RGBA", 0, 0), Colour("RGBA", 18, 255), Colour("RGBA", 255, 255)}
    ELSE {Colour("NRGBA64", 0, 0), Colour("NRGBA64", 4660, 65535),
          Colour("NRGBA64", 65535, 32768)}

Kinds == {"NRGBA", "RGBA", "NRGBA64"}

\* Color.RGBA(): the alpha-premultiplied 16-bit value <<r, a>> of a colour
RGBA(c) ==
    IF c.model = "NRGBA" THEN <<((c.R * 257) * c.A) \div 255, c.A * 257>>
    ELSE IF c.model = "RGBA" THEN <<c.R * 257, c.A * 257>>
    ELSE <<(c.R * c.A) \div 65535, c.A>>

\* color.NRGBAModel.Convert, which NRGBA.Set applies to the colour it is given
nrgbaModel(c) ==
    IF c.model = "NRGBA" THEN c
    ELSE LET r  == RGBA(c)[1]
             al == RGBA(c)[2]
         IN  IF al = 65535 THEN Colour("NRGBA", (r \div 256) % 256, 255)
             ELSE IF al = 0 THEN Colour("NRGBA", 0, 0)
             ELSE Colour("NRGBA", (((r * 65535) \div al) \div 256) % 256, (al \div 256) % 256)

(***************************************************************************)
(* imageMirrorY (lines 33-43).  A frame is an image with bounds Rect and   *)
(* a pixel pix[p] for each point p of Rect.                                *)
(***************************************************************************)
\* the frames explode can pass: any offset, any size, pixels of one type
MirrorFrames ==
    UNION { { [kind |-> k, Rect |-> r, pix |-> f] : f \in [RectPoints(r) -> Colours(k)] } :
            <<k, r>> \in Kinds \X
                { Rect(x, y, x + w, y + h) :
                     x \in 0 .. MaxMirrorMin, y \in 0 .. MaxMirrorMin,
                     w \in 1 .. MaxMirrorW, h \in 1 .. MaxMirrorH } }

\* the value of mx in the iteration of the outer loop for column x (lines 35-37)
MirrorColumnFromOrigin(f, x) == f.Rect.Max[1] - 1 - x
MirrorColumn(f, x) == f.Rect.Max[1] - 1 - (x - f.Rect.Min[1])

\* image.NewNRGBA(img.Bounds()) filled by the Set calls of the two loops
imageMirrorY(f) ==
    [kind |-> "NRGBA",
     Rect |-> f.Rect,
     pix  |-> [q \in RectPoints(f.Rect) |->
                 LET xs == {x \in f.Rect.Min[1] .. f.Rect.Max[1] - 1 : MirrorColumn(f, x) = q[1]}
                 IN  IF xs = {} THEN Colour("NRGBA", 0, 0)
                     ELSE nrgbaModel(f.pix[<<CHOOSE x \in xs : TRUE, q[2]>>])]]

MainIdle ==
    /\ source = MissingFile
    /\ budget = 0
    /\ pc = "idle"
    /\ a = NoArgs
    /\ img = NoImage
    /\ opened = FALSE
    /\ grid = NoGrid
    /\ row = 0
    /\ column = 0
    /\ files = {}
    /\ log = <<>>
    /\ errs = 0
    /\ exitCode = NoExit
    /\ stderr = <<>>

MirrorInit == MainIdle /\ NameIdle /\ mIn \in MirrorFrames /\ mOut = NoImage /\ mTwice = NoImage

\* mirrorImage := imageMirrorY(subImage) (line 170)
MirrorOnce ==
    /\ mOut = NoImage
    /\ mOut' = imageMirrorY(mIn)
    /\ UNCHANGED <<mIn, mTwice, mainVars, nameVars>>

\* imageMirrorY applied to its own result
MirrorTwice ==
    /\ mOut # NoImage
    /\ mTwice = NoImage
    /\ mTwice' = imageMirrorY(mOut)
    /\ UNCHANGED <<mIn, mOut, mainVars, nameVars>>

MirrorNext == MirrorOnce \/ MirrorTwice

MirrorSpec == MirrorInit /\ [][MirrorNext]_vars

(***************************************************************************)
(* The file names of one run of explode in which every frame is written.   *)
(***************************************************************************)
NameFilenames == {<<"s", ".", "g", "i", "f">>, <<"d", ".", "1", "/", "s", "-", "1">>}

\* the arguments of a run with -columns c -rows r
NameRuns ==
    { [NArg |-> 1, Filename |-> f, Prefix |-> Prefix(f), FrameWidth |-> 0, FrameHeight |-> 0,
       Columns |-> c, Rows |-> r, MirrorLeft |-> m] :
          f \in NameFilenames, c \in 1 .. MaxNameGrid, r \in 1 .. MaxNameGrid, m \in BOOLEAN }

NameInit == MainIdle /\ MirrorIdle /\ nRun \in NameRuns /\ nRow = 0 /\ nColumn = 0 /\ names = {}

\* the file names of one iteration of the inner loop (lines 155, 166-175)
NameCell ==
    /\ nRow < nRun.Rows
    /\ nColumn < nRun.Columns
    /\ names' = names \cup
          { [row |-> nRow, column |-> nColumn, side |-> Sides(nRun)[i],
             path |-> Sprintf(FrameFilenameFormat(nRun, nRun.Columns, nRun.Rows),
                              nRun.Prefix, Sides(nRun)[i], nRow, nColumn)] :
               i \in DOMAIN Sides(nRun) }
    /\ nColumn' = nColumn + 1
    /\ UNCHANGED <<nRun, nRow, mainVars, mirrorVars>>

\* the end of the inner loop (lines 157, 159)
NameRowEnd ==
    /\ nRow < nRun.Rows
    /\ nColumn >= nRun.Columns
    /\ nRow' = nRow + 1
    /\ nColumn' = 0
    /\ UNCHANGED <<nRun, names, mainVars, mirrorVars>>

NameNext == NameCell \/ NameRowEnd

NameSpec == NameInit /\ [][NameNext]_vars

(***************************************************************************)
(* Properties.                                                             *)
(***************************************************************************)
Range(f) == {f[i] : i \in DOMAIN f}

\* a step of explode
ExplodeStep == ExplodeCell \/ ExplodeRowEnd \/ ExplodeReturn

Running == pc \in {"explode", "done"}

\* every pixel of the frame with bounds r has alpha 0
FrameTransparent(im, r) == \A p \in RectPoints(r) : AlphaAt(im, r, p) = 0

\* the paths of the files a loop iteration wrote
Written(e) == {s.path : s \in {t \in Range(e.saves) : t.outcome = "ok"}} \cap files

\* C1: for every grid cell visited by explode on a disk that takes every file,
\* a frame all of whose pixels have alpha 0 yields no output file, and a frame
\* with a pixel of non-zero alpha yields exactly one file without -mirror-left
\* and exactly two, one "r" and one "l", with it.
C1_FilesPerFrame ==
    Running =>
        \A i \in DOMAIN log :
            LET e == log[i]
            IN  IF FrameTransparent(img, e.bounds)
                   THEN e.saves = <<>> /\ Written(e) = {}
                   ELSE /\ Cardinality(Written(e)) = (IF a.MirrorLeft THEN 2 ELSE 1)
                        /\ {s.side : s \in Range(e.saves)} =
                              (IF a.MirrorLeft THEN {"r", "l"} ELSE {""})

\* one of the three conditions args.parse rejects holds of the parsed flags
ArgsRejected ==
    \/ a.NArg # 1
    \/ a.FrameHeight = 0 /\ a.Rows = 0
    \/ a.FrameWidth = 0 /\ a.Columns = 0

\* flag.Parse rejected the command line
FlagsRejected == "flag error" \in Range(stderr)

FlagsParsed == pc # "start" /\ ~FlagsRejected

\* C2: when the number of positional arguments is not one, or -height and
\* -rows are both zero, or -width and -columns are both zero, the usage is
\* printed and the process exits with status 1, before the source file is
\* opened and before any output file is written.
C2_UsageAndExit1 ==
    (FlagsParsed /\ ArgsRejected) =>
        /\ pc = "exited"
        /\ exitCode = 1
        /\ "usage" \in Range(stderr)
        /\ ~opened
        /\ files = {}

\* the exit status the error taxonomy gives the first fatal error of the run
FatalStatus ==
    IF pc = "start" THEN NoExit
    ELSE IF FlagsRejected \/ ArgsRejected THEN 1
    ELSE IF source.kind = "missing" THEN 2
    ELSE IF source.kind = "garbage" THEN 3
    ELSE IF ~source.sub THEN 4
    ELSE NoExit

\* C3: each fatal error ends the process with its own exit code, after a
\* message on the error stream and without any output file: 1 for bad or
\* missing arguments, 2 when the source cannot be opened, 3 when it cannot be
\* decoded, 4 when the decoded image has no SubImage; explode is reached only
\* when none of these occurred.
C3_ExitCodes ==
    /\ pc = "exited" => exitCode = FatalStatus /\ stderr # <<>> /\ files = {}
    /\ Running => FatalStatus = NoExit

\* C4: a failing output file does not abort the run.  After a failed create
\* or a failed encode the path does not exist; every side of a non-empty frame
\* is attempted whatever happened to the side before it; after a failure
\* explode still has its next step to take; and the run ends normally with
\* every cell visited.
C4_OutputErrorsRecoverable ==
    /\ \A i \in DOMAIN log :
          /\ \A s \in Range(log[i].saves) : (s.path \in files) <=> (s.outcome = "ok")
          /\ ~log[i].empty => [j \in DOMAIN log[i].saves |-> log[i].saves[j].side] = Sides(a)
    /\ pc = "explode" => exitCode = NoExit
    /\ (pc = "explode" /\ errs > 0) => ENABLED ExplodeStep
    /\ pc = "done" => exitCode = 0 /\ Len(log) = grid.rows * grid.columns
    /\ pc = "exited" => log = <<>>

\* C4 happens: in mirror mode the "r" side of a frame failed, its "l" side was
\* written all the same, a later cell was visited, and the run ended normally.
C4_Witness ==
    /\ pc = "done"
    /\ \E i \in DOMAIN log :
          /\ Len(log[i].saves) = 2
          /\ log[i].saves[1].outcome = "encodeFail"
          /\ log[i].saves[2].outcome = "ok"
          /\ log[i].saves[2].path \in files
          /\ i < Len(log)

\* C5: explode requests one rectangle per pair (row, column), in row-major
\* order, columns * rows of them in all, and then returns; the rectangle of
\* (row, column) starts at (column * frameWidth, row * frameHeight) and is
\* frameWidth wide and frameHeight high before it is clamped.
C5_RowMajorRectangles ==
    Running =>
        /\ \A i \in DOMAIN log :
              LET e == log[i]
              IN  /\ e.row = (i - 1) \div grid.columns
                  /\ e.column = (i - 1) % grid.columns
                  /\ e.row < grid.rows
                  /\ e.rect.Min = <<e.column * grid.frameWidth, e.row * grid.frameHeight>>
                  /\ e.rect.Max[1] - e.rect.Min[1] = grid.frameWidth
                  /\ e.rect.Max[2] - e.rect.Min[2] = grid.frameHeight
        /\ pc = "explode" => Len(log) = row * grid.columns + column /\ ENABLED ExplodeStep
        /\ pc = "done" => Len(log) = grid.columns * grid.rows

\* C5 happens: a run over at least two rows of at least two columns ended.
C5_Witness ==
    /\ pc = "done"
    /\ grid.rows >= 2
    /\ grid.columns >= 2
    /\ grid.frameWidth >= 1
    /\ Len(log) = grid.rows * grid.columns

\* C6: applying imageMirrorY twice gives an image with the bounds of the
\* original and, at every point of them, the colour of the original.
C6_MirrorInvolution ==
    mTwice # NoImage =>
        /\ mTwice.Rect = mIn.Rect
        /\ \A p \in RectPoints(mIn.Rect) : RGBA(mTwice.pix[p]) = RGBA(mIn.pix[p])

\* C7: distinct (row, column, side) of a run have distinct paths, and the
\* path of a cell is <prefix>-<row>-<column>.png, with -<l|r> after the prefix
\* when mirroring, row and column in decimal with leading zeros only.
C7_DistinctPaths ==
    /\ Cardinality({n.path : n \in names}) = Cardinality(names)
    /\ \A n \in names :
          \E wr \in 0 .. Len(Itoa(nRun.Rows)), wc \in 0 .. Len(Itoa(nRun.Columns)) :
              n.path = nRun.Prefix
                         \o (IF nRun.MirrorLeft THEN <<"-", n.side>> ELSE <<>>)
                         \o <<"-">> \o PadZero(Itoa(n.row), wr)
                         \o <<"-">> \o PadZero(Itoa(n.column), wc)
                         \o <<".", "p", "n", "g">>
    /\ \A n \in names : n.side \in (IF nRun.MirrorLeft THEN {"l", "r"} ELSE {""})

\* C7 happens: all names of a mirrored run of one row of at least eleven
\* columns, which needs two digits for the column, have been built.
C7_Witness ==
    /\ nRun.MirrorLeft
    /\ nRun.Rows = 1
    /\ nRun.Columns >= 11
    /\ Cardinality(names) = 2 * nRun.Rows * nRun.Columns

\* the colour f.At(p) of a frame: the zero colour outside its bounds
FrameAt(f, p) == IF In(p, f.Rect) THEN f.pix[p] ELSE Colour(f.kind, 0, 0)

C9_ScanExactlyFrame ==
    Running =>
        \A i \in DOMAIN log :
            LET e == log[i]
            IN  /\ ScanVisited(img, e.bounds) \subseteq RectPoints(e.bounds)
                /\ e.empty => ScanVisited(img, e.bounds) = RectPoints(e.bounds)
                /\ e.empty <=> FrameTransparent(img, e.bounds)

\* exactly one flag of the pair is non-zero
ExactlyOne(x, y) == (x = 0) # (y = 0)

\* C10: when exactly one of -width/-columns is given, columns * frameWidth
\* is at most the source width, no requested rectangle passes the right edge,
\* and the trailing (width mod frameWidth) pixel columns are in no frame; the
\* same for -height/-rows; with exactly one of each pair clamping changes no
\* frame.  Hence a rectangle passes the source bounds only if both flags of a
\* pair are given.
C10_DerivedGridInsideSource ==
    Running =>
        /\ ExactlyOne(a.FrameWidth, a.Columns) =>
              /\ grid.columns * grid.frameWidth <= img.W
              /\ \A i \in DOMAIN log :
                    /\ log[i].rect.Max[1] <= img.W
                    /\ \A p \in RectPoints(log[i].bounds) :
                          /\ p[1] < grid.columns * grid.frameWidth
                          /\ grid.frameWidth > 0 =>
                                p[1] < img.W - (img.W % grid.frameWidth)
        /\ ExactlyOne(a.FrameHeight, a.Rows) =>
              /\ grid.rows * grid.frameHeight <= img.H
              /\ \A i \in DOMAIN log :
                    /\ log[i].rect.Max[2] <= img.H
                    /\ \A p \in RectPoints(log[i].bounds) :
                          /\ p[2] < grid.rows * grid.frameHeight
                          /\ grid.frameHeight > 0 =>
                                p[2] < img.H - (img.H % grid.frameHeight)
        /\ (ExactlyOne(a.FrameWidth, a.Columns) /\ ExactlyOne(a.FrameHeight, a.Rows)) =>
              \A i \in DOMAIN log : RectPoints(log[i].bounds) = RectPoints(log[i].rect)

\* C10 happens: a run with -width and -height only, on a source whose width
\* is no multiple of the frame width, wrote a frame and ended.
C10_Witness ==
    /\ pc = "done"
    /\ a.Columns = 0
    /\ a.Rows = 0
    /\ img.W % grid.frameWidth # 0
    /\ files # {}

====
